---------------------------- MODULE Spec2Model ----------------------------
(***************************************************************************)
(* DHL24 WebAPI v2 SOAP client (package dhl, src/dhl/client.go and         *)
(* src/dhl/types.go).  One caller drives one call at a time through the    *)
(* client: the call marshals its request, sends it with httpClient.Do,     *)
(* reads the body with io.ReadAll, decodes it with xml.Unmarshal and       *)
(* returns (result, *http.Response, error).  The transport, the clock and  *)
(* the caller's context are the environment.                               *)
(***************************************************************************)
EXTENDS Integers, Sequences, FiniteSets, TLC

VARIABLES
    pc,        \* position of the call: idle, lastdays, sending, reading, done
    op,        \* the exported method the caller invoked
    args,      \* its arguments
    readings,  \* the clock readings (time.Now()) the call has made, in order
    sent,      \* the HTTP requests handed to httpClient.Do during the call
    ctxErr,    \* ctx.Err() of the caller-supplied context ("" while live)
    httpResp,  \* the *http.Response returned by httpClient.Do (NoResp = nil)
    respDoc,   \* the document io.ReadAll returned (NoDoc before that)
    ioErr,     \* the error httpClient.Do or the body's Read reported ("" for none)
    ret,       \* what the call returned to its caller
    now,       \* the local calendar date the clock shows
    ticks,     \* how many times midnight has passed
    envelope,  \* the envelope xml.Unmarshal filled in the running method
    client,    \* the Client the methods are called on
    debugWrites, \* the debug files the call tried to write, in order
    mainpc,    \* position of main ("" when the caller is not main)
    wire,      \* the requests the transport began to transmit
    mReq,      \* the payload handed to marshalSOAPRequest, text as characters
    mOut,      \* the bytes marshalSOAPRequest returned for mReq
    goroutines, \* the calls of doRequest that run side by side, one per goroutine
    started,   \* how many of those calls have been started
    instant,   \* the clock of writeDebugFile, in instants shorter than a millisecond
    written    \* the debug files written so far, each with the call that wrote it

vars == <<pc, op, args, readings, sent, ctxErr, httpResp, respDoc, ioErr, ret, now, ticks, envelope, client, debugWrites, mainpc, wire, mReq, mOut, goroutines, started, instant, written>>

---------------------------------------------------------------------------
(* Bounds of the model.                                                    *)

\* longest createShipmentsResult / getMyShipmentsResult item list in one element
MaxResultItems == 2
\* most shipments submitted in one CreateShipments call
MaxItems == 2
\* most midnights that pass during a run
MaxTicks == 1
\* longest text of a string field whose characters are spelt out
MaxText == 2
\* most pieces of a shipment whose request is spelt out
MaxPieces == 2
\* most calls of doRequest whose debug files are followed
MaxCalls == 2
\* most instants the clock of writeDebugFile moves on
MaxInstants == 2

---------------------------------------------------------------------------
(* Constants of client.go.                                                 *)

Endpoint == "https://dhl24.com.pl/webapi2/provider/service.html?ws=1"
soapenvNS == "http://schemas.xmlsoap.org/soap/envelope/"
dhlNS == "https://dhl24.com.pl/webapi2/provider/service.html?ws=1"

SeqsUpTo(S, n) == UNION {[1..k -> S] : k \in 0..n}

---------------------------------------------------------------------------
(* Errors.  fmt.Errorf("msg: %w", cause) keeps the cause reachable through *)
(* errors.Is / errors.Unwrap; fmt.Errorf("msg") wraps nothing.             *)

NilErr == [msg |-> "", cause |-> ""]
Errorf(msg) == [msg |-> msg, cause |-> ""]
ErrorfW(msg, cause) == [msg |-> msg, cause |-> cause]

\* causes httpClient.Do and resp.Body.Read report on their own
TransportCauses == {"connection refused", "Client.Timeout exceeded"}
\* ctx.Err() once the caller's context has fired
CtxErrors == {"context canceled", "context deadline exceeded"}
\* what xml.Unmarshal reports
XMLSyntaxError == "XML syntax error: unexpected EOF"
XMLRootError == "expected element type <Envelope>"

---------------------------------------------------------------------------
(* Wire data of types.go.                                                  *)

\* CreatedShipment: shipmentId, shipmentNo (omitempty), orderStatus (omitempty)
CreatedShipments ==
    { [shipmentId |-> "11111", shipmentNo |-> "", orderStatus |-> ""],
      [shipmentId |-> "22222", shipmentNo |-> "N2", orderStatus |-> "CREATED"] }

\* ShipmentBasicData: shipmentId, created, receiver name, orderStatus
ShipmentBasicDatas ==
    { [shipmentId |-> "11111", created |-> "2024-06-09", receiver |-> "Anna", orderStatus |-> "DELIVERED"],
      [shipmentId |-> "22222", created |-> "2024-06-10", receiver |-> "", orderStatus |-> ""] }

\* ShipmentItem values the caller submits
ShipmentItems == { [receiver |-> "Test Receiver", product |-> "AH", pieces |-> 1] }

\* an element inside <Body>: its tag, its text (getVersionResult, or the
\* faultcode of a Fault) and its <item> children under the *Result element
Element(tag, text, created, listed) ==
    [tag |-> tag, text |-> text, created |-> created, listed |-> listed]

BodyElements ==
    { Element("getVersionResponse", v, <<>>, <<>>) : v \in {"", "2.13.3"} }
    \cup { Element("createShipmentsResponse", "", s, <<>>) :
             s \in SeqsUpTo(CreatedShipments, MaxResultItems) }
    \cup { Element("getMyShipmentsResponse", "", <<>>, s) :
             s \in SeqsUpTo(ShipmentBasicDatas, MaxResultItems) }
    \cup { Element("Fault", c, <<>>, <<>>) : c \in {"100", "101", "131"} }

\* number of <item> elements an element carries
ItemCount(e) == Len(e.created) + Len(e.listed)

\* where the bytes stop: child = 0 for a complete document; otherwise the
\* document ends inside Body element number `child` after `part` of its items
\* (child = Len(children) + 1: after the last element, before the end tags)
NoCut == [child |-> 0, part |-> 0]
Cuts(children) ==
    {NoCut}
    \cup { [child |-> i, part |-> j] :
             i \in 1..Len(children),
             j \in 0..MaxResultItems }
    \cup { [child |-> Len(children) + 1, part |-> 0] }

WellCut(children, cut) ==
    \/ cut.child = 0
    \/ cut.child = Len(children) + 1 /\ cut.part = 0
    \/ /\ cut.child \in 1..Len(children)
       /\ cut.part <= ItemCount(children[cut.child])

\* the response documents: an Envelope whose Body holds none, one or two
\* elements, possibly truncated, or a document with another root element
Doc(root, children, cut) == [root |-> root, children |-> children, cut |-> cut]
NoDoc == Doc("", <<>>, NoCut)
\* one element of each kind, for the documents that hold two elements
PairElements ==
    { e \in BodyElements : ItemCount(e) = 1 \/ e.text \in {"2.13.3", "100"} }
ChildLists ==
    {<<>>} \cup { <<e>> : e \in BodyElements }
    \cup { <<e, f>> : e \in PairElements, f \in PairElements }
Docs ==
    UNION { { Doc("Envelope", ch, cut) : cut \in {c \in Cuts(ch) : WellCut(ch, c)} } :
            ch \in ChildLists }
    \cup { Doc("html", <<>>, NoCut) }

---------------------------------------------------------------------------
(* xml.Unmarshal into the response envelopes of types.go.                  *)

\* SOAPResponseBody with the tag of its third field misspelt
SOAPResponseBody_MisspeltTag ==
    {"getVersionResponse", "createShipmentsResponse", "getMyShipmentResponse"}

\* the Body fields the two envelope types declare
SOAPResponseBody ==
    {"getVersionResponse", "createShipmentsResponse", "getMyShipmentsResponse"}
GetMyShipmentsBody == {"getMyShipmentsResponse"}

\* a decoded envelope: per slot, whether the element was met (for the pointer
\* fields of SOAPResponseBody: non-nil) and what was stored under it
EmptyEnvelope ==
    [ GetVersionResponse      |-> [present |-> FALSE, Version |-> ""],
      CreateShipmentsResponse |-> [present |-> FALSE, Items |-> <<>>],
      GetMyShipmentsResponse  |-> [present |-> FALSE, Items |-> <<>>] ]

Min(a, b) == IF a < b THEN a ELSE b

\* one Body element decoded into the envelope.  n is the number of its items
\* read before the bytes stop, whole says whether its end tag was read.  An
\* element no field names is skipped; a slot met again is reused: its item
\* slice is appended to and its string overwritten.  The string of
\* getVersionResult is stored when that element ends.
DecodeElement(env, fields, e, n, whole) ==
    IF e.tag \notin fields THEN env
    ELSE IF e.tag = "getVersionResponse" THEN
        [env EXCEPT !.GetVersionResponse =
            [present |-> TRUE, Version |-> IF whole THEN e.text ELSE @.Version]]
    ELSE IF e.tag = "createShipmentsResponse" THEN
        [env EXCEPT !.CreateShipmentsResponse =
            [present |-> TRUE,
             Items |-> @.Items \o SubSeq(e.created, 1, Min(n, Len(e.created)))]]
    ELSE
        [env EXCEPT !.GetMyShipmentsResponse =
            [present |-> TRUE,
             Items |-> @.Items \o SubSeq(e.listed, 1, Min(n, Len(e.listed)))]]

RECURSIVE DecodeChildren(_, _, _, _, _)
\* the Body elements from number i on, decoded in document order up to the cut
DecodeChildren(env, fields, children, cut, i) ==
    IF i > Len(children) THEN env
    ELSE IF cut.child = i THEN
        DecodeElement(env, fields, children[i], cut.part, FALSE)
    ELSE
        DecodeChildren(
            DecodeElement(env, fields, children[i], ItemCount(children[i]), TRUE),
            fields, children, cut, i + 1)

\* xml.Unmarshal(body, &envelope): the envelope as far as it was filled, and
\* the error ("" for nil).  The root element must be Envelope; a document that
\* stops early is a syntax error, reported after the part before it was decoded.
Unmarshal(doc, fields) ==
    IF doc.root # "Envelope"
    THEN [envelope |-> EmptyEnvelope, err |-> XMLRootError]
    ELSE [envelope |-> DecodeChildren(EmptyEnvelope, fields, doc.children, doc.cut, 1),
          err |-> IF doc.cut.child = 0 THEN "" ELSE XMLSyntaxError]

---------------------------------------------------------------------------
(* The clock: time.Now(), Time.AddDate and Time.Format("2006-01-02").      *)

IsLeap(y) == y % 4 = 0 /\ (y % 100 # 0 \/ y % 400 = 0)
DaysInYear(y) == IF IsLeap(y) THEN 366 ELSE 365
\* days of the year before the first of month m
DaysBefore(y, m) ==
    <<0, 31, 59, 90, 120, 151, 181, 212, 243, 273, 304, 334, 365>>[m]
    + (IF IsLeap(y) /\ m >= 3 THEN 1 ELSE 0)

RECURSIVE DaysBeforeYear(_)
\* days from 1970-01-01 to the first of January of year y (y >= 1970)
DaysBeforeYear(y) == IF y <= 1970 THEN 0 ELSE DaysBeforeYear(y - 1) + DaysInYear(y - 1)

\* time.Date(y, m, d, ...) as a day number since 1970-01-01; a day outside
\* the month is normalised by counting on from the first of the month
Date(y, m, d) == DaysBeforeYear(y) + DaysBefore(y, m) + d - 1

RECURSIVE YearOf(_, _)
YearOf(n, y) == IF n < DaysBeforeYear(y + 1) THEN y ELSE YearOf(n, y + 1)

\* a Time, as far as the client uses it: its local calendar date
Time(y, m, d) == [year |-> y, month |-> m, day |-> d]

\* the calendar date of a day number
Civil(n) ==
    LET y == YearOf(n, 1970)
        yday == n - DaysBeforeYear(y)
        m == CHOOSE k \in 1..12 : DaysBefore(y, k) <= yday /\ yday < DaysBefore(y, k + 1)
    IN Time(y, m, yday - DaysBefore(y, m) + 1)

\* t.AddDate(0, 0, days): Date(year, month, day + days), normalised
AddDate(t, days) == Civil(Date(t.year, t.month, t.day + days))

Pad2(k) == IF k < 10 THEN "0" \o ToString(k) ELSE ToString(k)
\* t.Format("2006-01-02")
Format(t) == ToString(t.year) \o "-" \o Pad2(t.month) \o "-" \o Pad2(t.day)

\* createdFrom with the sign of days lost: AddDate(0, 0, days)
LastDaysCreatedFromDate_Forward(t, days) == Format(AddDate(t, days))

\* client.go 246 and 247: the two dates GetMyShipmentsLastDays computes, each
\* from its own reading t of the clock
LastDaysCreatedTo(t) == Format(t)
LastDaysCreatedFromDate(t, days) == Format(AddDate(t, -days))

---------------------------------------------------------------------------
(* Requests: the payload types of types.go, marshalSOAPRequest, doRequest. *)

\* the credentials of config.json
config == [Username |-> "user", Password |-> "secret", AccountNumber |-> "6000000"]

\* DHL24Config: the credentials and the debug settings
DHL24Config(debugFiles, debugFilesDir) ==
    [Username |-> config.Username, Password |-> config.Password,
     AccountNumber |-> config.AccountNumber,
     DebugFiles |-> debugFiles, DebugFilesDir |-> debugFilesDir]
\* the configurations a client is built from: debug files off, on with the
\* default directory, on with a directory of its own
Configs == { DHL24Config(FALSE, ""), DHL24Config(TRUE, ""), DHL24Config(TRUE, "debug") }

\* NewClient
NewClient(cfg) ==
    [httpClient |-> [Timeout |-> 15], config |-> cfg,
     debugFiles |-> cfg.DebugFiles, debugFilesDir |-> cfg.DebugFilesDir]

\* writeDebugFile: the attempt to write prefix_<timestamp>.xml into the debug
\* directory; a failure of MkdirAll or WriteFile prints a warning and no more
writeDebugFile(prefix, ok) ==
    [dir |-> IF client.debugFilesDir = "" THEN "." ELSE client.debugFilesDir,
     prefix |-> prefix, written |-> ok]

\* authData()
authData == [username |-> client.config.Username, password |-> client.config.Password]
NoAuth == [username |-> "", password |-> ""]

\* the request payloads; a field a payload type does not have is left empty
GetVersionRequest ==
    [XMLName |-> "ns:getVersion", authData |-> NoAuth, shipments |-> <<>>,
     createdFrom |-> "", createdTo |-> "", offset |-> 0]
CreateShipmentsRequest(shipments) ==
    [XMLName |-> "ns:createShipments", authData |-> authData, shipments |-> shipments,
     createdFrom |-> "", createdTo |-> "", offset |-> 0]
\* a listing request that always asks for the first page
GetMyShipmentsRequest_FirstPage(createdFrom, createdTo, offset) ==
    [XMLName |-> "ns:getMyShipments", authData |-> authData, shipments |-> <<>>,
     createdFrom |-> createdFrom, createdTo |-> createdTo, offset |-> 0]

GetMyShipmentsRequest(createdFrom, createdTo, offset) ==
    [XMLName |-> "ns:getMyShipments", authData |-> authData, shipments |-> <<>>,
     createdFrom |-> createdFrom, createdTo |-> createdTo, offset |-> offset]

\* no payload: nothing has been handed to marshalSOAPRequest
NoPayload ==
    [XMLName |-> "", authData |-> NoAuth, shipments |-> <<>>,
     createdFrom |-> "", createdTo |-> "", offset |-> 0]

\* marshalSOAPRequest: the payload as the sole content of the Body of an
\* Envelope with the two namespace declarations and an empty Header, after
\* the XML declaration
marshalSOAPRequest(body) ==
    [header |-> "<?xml version=\"1.0\" encoding=\"UTF-8\"?>",
     soapenv |-> soapenvNS, ns |-> dhlNS, Header |-> <<>>, Body |-> body]

\* a request whose SOAPAction lacks the operation name
NewRequest_ActionWithoutOperation(body, soapAction) ==
    [method |-> "POST", url |-> Endpoint,
     contentType |-> "text/xml; charset=utf-8", soapAction |-> Endpoint,
     body |-> body]

\* the request doRequest builds and hands to httpClient.Do
NewRequest(body, soapAction) ==
    [method |-> "POST", url |-> Endpoint,
     contentType |-> "text/xml; charset=utf-8", soapAction |-> soapAction,
     body |-> body]

\* *http.Response: nil, or a response with its status code
NoResp == [status |-> 0]
Responses == { [status |-> 200], [status |-> 500] }

\* doRequest dropping the error of io.ReadAll and returning what was read
doRequestReadError_Dropped(resp, cause) ==
    [body |-> Doc("Envelope", <<>>, [child |-> 1, part |-> 0]), resp |-> resp, err |-> NilErr]

\* what doRequest returns: (respBody, resp, err)
doRequestDoError(cause) ==
    [body |-> NoDoc, resp |-> NoResp, err |-> ErrorfW("error making request", cause)]
doRequestReadError(resp, cause) ==
    [body |-> NoDoc, resp |-> resp, err |-> ErrorfW("error reading response", cause)]
\* doRequest returning what reached the debug file instead of what was read
doRequestOk_ReturnsDebugFile(resp, doc) ==
    [body |-> IF \E i \in 1..Len(debugWrites) : ~debugWrites[i].written
              THEN Doc("Envelope", <<>>, [child |-> 1, part |-> 0]) ELSE doc,
     resp |-> resp, err |-> NilErr]

\* doRequest returning the body without the response it came in
doRequestOk_DropsResponse(resp, doc) ==
    [body |-> doc, resp |-> NoResp, err |-> NilErr]

doRequestOk(resp, doc) ==
    [body |-> doc, resp |-> resp, err |-> NilErr]

---------------------------------------------------------------------------
(* The exported methods of Client, from the return of doRequest on.  A     *)
(* result holds every return position: version (GetVersion), created       *)
(* (CreateShipments), single (CreateShipment: <<>> is the nil pointer),     *)
(* listed (GetMyShipments), then resp and err.  <<>> is the nil slice.     *)

Result(version, created, single, listed, resp, err) ==
    [version |-> version, created |-> created, single |-> single,
     listed |-> listed, resp |-> resp, err |-> err]
NoResult == Result("", <<>>, <<>>, <<>>, NoResp, NilErr)

\* GetVersion without the check of the slot (client.go 156-158 left out)
GetVersion_NoSlotCheck(r) ==
    IF r.err # NilErr THEN Result("", <<>>, <<>>, <<>>, r.resp, r.err)
    ELSE LET u == Unmarshal(r.body, SOAPResponseBody) IN
        IF u.err # ""
        THEN Result("", <<>>, <<>>, <<>>, r.resp, ErrorfW("error parsing response", u.err))
        ELSE Result(u.envelope.GetVersionResponse.Version, <<>>, <<>>, <<>>, r.resp, NilErr)

\* GetVersion, client.go 146-160; r is what doRequest returned
GetVersion(r) ==
    IF r.err # NilErr THEN Result("", <<>>, <<>>, <<>>, r.resp, r.err)
    ELSE LET u == Unmarshal(r.body, SOAPResponseBody) IN
        IF u.err # ""
        THEN Result("", <<>>, <<>>, <<>>, r.resp, ErrorfW("error parsing response", u.err))
        ELSE IF ~u.envelope.GetVersionResponse.present
        THEN Result("", <<>>, <<>>, <<>>, r.resp, Errorf("empty getVersion response"))
        ELSE Result(u.envelope.GetVersionResponse.Version, <<>>, <<>>, <<>>, r.resp, NilErr)

RECURSIVE Deduplicated(_)
\* a sequence without the items equal to their predecessor
Deduplicated(items) ==
    IF Len(items) <= 1 THEN items
    ELSE IF items[1] = items[2] THEN Deduplicated(Tail(items))
    ELSE <<items[1]>> \o Deduplicated(Tail(items))

\* CreateShipments dropping repeated confirmations
CreateShipments_Deduplicates(r) ==
    IF r.err # NilErr THEN Result("", <<>>, <<>>, <<>>, r.resp, r.err)
    ELSE LET u == Unmarshal(r.body, SOAPResponseBody) IN
        IF u.err # ""
        THEN Result("", <<>>, <<>>, <<>>, r.resp, ErrorfW("error parsing response", u.err))
        ELSE IF ~u.envelope.CreateShipmentsResponse.present
        THEN Result("", <<>>, <<>>, <<>>, r.resp, Errorf("empty createShipments response"))
        ELSE Result("", Deduplicated(u.envelope.CreateShipmentsResponse.Items),
                    <<>>, <<>>, r.resp, NilErr)

\* CreateShipments without the check of the slot (client.go 194-196 left out)
CreateShipments_NoSlotCheck(r) ==
    IF r.err # NilErr THEN Result("", <<>>, <<>>, <<>>, r.resp, r.err)
    ELSE LET u == Unmarshal(r.body, SOAPResponseBody) IN
        IF u.err # ""
        THEN Result("", <<>>, <<>>, <<>>, r.resp, ErrorfW("error parsing response", u.err))
        ELSE Result("", u.envelope.CreateShipmentsResponse.Items, <<>>, <<>>, r.resp, NilErr)

\* CreateShipments, client.go 184-198
CreateShipments(r) ==
    IF r.err # NilErr THEN Result("", <<>>, <<>>, <<>>, r.resp, r.err)
    ELSE LET u == Unmarshal(r.body, SOAPResponseBody) IN
        IF u.err # ""
        THEN Result("", <<>>, <<>>, <<>>, r.resp, ErrorfW("error parsing response", u.err))
        ELSE IF ~u.envelope.CreateShipmentsResponse.present
        THEN Result("", <<>>, <<>>, <<>>, r.resp, Errorf("empty createShipments response"))
        ELSE Result("", u.envelope.CreateShipmentsResponse.Items, <<>>, <<>>, r.resp, NilErr)

\* CreateShipment returning the last confirmation instead of results[0]
CreateShipment_LastResult(r) ==
    LET c == CreateShipments(r) IN
        IF c.err # NilErr THEN Result("", <<>>, <<>>, <<>>, c.resp, c.err)
        ELSE IF Len(c.created) = 0
        THEN Result("", <<>>, <<>>, <<>>, c.resp, Errorf("no shipment created"))
        ELSE Result("", <<>>, <<c.created[Len(c.created)]>>, <<>>, c.resp, NilErr)

\* CreateShipment, client.go 203-212: the wrapper around CreateShipments
CreateShipment(r) ==
    LET c == CreateShipments(r) IN
        IF c.err # NilErr THEN Result("", <<>>, <<>>, <<>>, c.resp, c.err)
        ELSE IF Len(c.created) = 0
        THEN Result("", <<>>, <<>>, <<>>, c.resp, Errorf("no shipment created"))
        ELSE Result("", <<>>, <<c.created[1]>>, <<>>, c.resp, NilErr)

\* GetMyShipments returning the items decoded so far beside the parse error
GetMyShipments_KeepsPartial(r) ==
    IF r.err # NilErr THEN Result("", <<>>, <<>>, <<>>, r.resp, r.err)
    ELSE LET u == Unmarshal(r.body, GetMyShipmentsBody) IN
        Result("", <<>>, <<>>, u.envelope.GetMyShipmentsResponse.Items, r.resp,
               IF u.err # "" THEN ErrorfW("error parsing response", u.err) ELSE NilErr)

\* GetMyShipments, client.go 231-241: the envelope holds the response by
\* value, and its items are returned without a check that it was met
\* GetMyShipments treating every status but 200 as an error
GetMyShipments_ChecksStatus(r) ==
    IF r.err # NilErr THEN Result("", <<>>, <<>>, <<>>, r.resp, r.err)
    ELSE IF r.resp.status # 200
    THEN Result("", <<>>, <<>>, <<>>, r.resp, Errorf("unexpected status"))
    ELSE LET u == Unmarshal(r.body, GetMyShipmentsBody) IN
        IF u.err # ""
        THEN Result("", <<>>, <<>>, <<>>, r.resp, ErrorfW("error parsing response", u.err))
        ELSE Result("", <<>>, <<>>, u.envelope.GetMyShipmentsResponse.Items, r.resp, NilErr)

GetMyShipments(r) ==
    IF r.err # NilErr THEN Result("", <<>>, <<>>, <<>>, r.resp, r.err)
    ELSE LET u == Unmarshal(r.body, GetMyShipmentsBody) IN
        IF u.err # ""
        THEN Result("", <<>>, <<>>, <<>>, r.resp, ErrorfW("error parsing response", u.err))
        ELSE Result("", <<>>, <<>>, u.envelope.GetMyShipmentsResponse.Items, r.resp, NilErr)

\* GetMyShipmentsLastDays, client.go 248: returns what GetMyShipments returns
GetMyShipmentsLastDays(r) == GetMyShipments(r)

\* the Body fields of the envelope type the method decodes into: GetMyShipments
\* uses GetMyShipmentsEnvelope, the other methods SOAPResponseEnvelope
EnvelopeFields(o) ==
    IF o \in {"GetMyShipments", "GetMyShipmentsLastDays"}
    THEN GetMyShipmentsBody ELSE SOAPResponseBody

\* the operation name a method passes to doRequest
operationNameOf(o) ==
    CASE o = "GetVersion" -> "getVersion"
      [] o \in {"CreateShipments", "CreateShipment"} -> "createShipments"
      [] OTHER -> "getMyShipments"

Ops == {"GetVersion", "CreateShipments", "CreateShipment",
        "GetMyShipments", "GetMyShipmentsLastDays"}

\* the method that is running, continued from the return of doRequest
Continue(o, r) ==
    CASE o = "GetVersion" -> GetVersion(r)
      [] o = "CreateShipments" -> CreateShipments(r)
      [] o = "CreateShipment" -> CreateShipment(r)
      [] o = "GetMyShipments" -> GetMyShipments(r)
      [] OTHER -> GetMyShipmentsLastDays(r)

---------------------------------------------------------------------------
(* The state machine: one call at a time, split where the call waits for   *)
(* the clock, the transport or the response body.                          *)

Args(shipments, createdFrom, createdTo, offset, days) ==
    [shipments |-> shipments, createdFrom |-> createdFrom,
     createdTo |-> createdTo, offset |-> offset, days |-> days]
NoArgs == Args(<<>>, "", "", 0, 0)

\* the calendar days a run starts on: an ordinary day, the day after a leap
\* day and a day in the first week of a year
StartDays == { Time(2024, 6, 10), Time(2024, 3, 1), Time(2024, 1, 3) }
\* the values of `days` the caller passes
Days == {0, 1, 7}
\* the date ranges and offsets the caller passes
DateArgs == {"2024-06-03", "2024-06-10"}
Offsets == {0, 100}

\* the goroutines that call the client side by side
Goroutines == {1, 2}
\* a goroutine that is not in doRequest
NoCall == [id |-> 0, operationName |-> ""]

\* the state after NewClient, before any call
NewState ==
    /\ pc = "idle"
    /\ op = ""
    /\ args = NoArgs
    /\ readings = <<>>
    /\ sent = <<>>
    /\ ctxErr = ""
    /\ httpResp = NoResp
    /\ respDoc = NoDoc
    /\ ioErr = ""
    /\ ret = NoResult
    /\ now \in StartDays
    /\ ticks = 0
    /\ envelope = EmptyEnvelope
    /\ client \in { NewClient(c) : c \in Configs }
    /\ debugWrites = <<>>
    /\ wire = <<>>
    /\ mReq = NoPayload
    /\ mOut = <<>>
    /\ goroutines = [g \in Goroutines |-> NoCall]
    /\ started = 0
    /\ instant = 0
    /\ written = {}

\* the callers of the library other than main
Init ==
    /\ NewState
    /\ mainpc = ""

\* a call that sends its request a second time
Begin_SendsAgain(o, a, payload, operationName) ==
    /\ op' = o
    /\ args' = a
    /\ LET req == NewRequest(marshalSOAPRequest(payload), Endpoint \o "#" \o operationName)
       IN sent' = sent \o <<req, req>>
    /\ pc' = "sending"
    /\ UNCHANGED <<ctxErr, httpResp, respDoc, ioErr, ret, now, ticks, envelope, client, mainpc, mReq, mOut, goroutines, started, instant, written>>
    /\ debugWrites' \in (IF client.debugFiles
                         THEN { Append(debugWrites, writeDebugFile(operationName \o "_request", ok)) : ok \in BOOLEAN }
                         ELSE {debugWrites})
    /\ wire' = IF ctxErr = ""
               THEN Append(wire, NewRequest(marshalSOAPRequest(payload),
                                            Endpoint \o "#" \o operationName))
               ELSE wire

\* a call that clears the password of the configuration it was given
Begin_ClearsPassword(o, a, payload, operationName) ==
    /\ op' = o
    /\ args' = a
    /\ sent' = Append(sent, NewRequest(marshalSOAPRequest(payload),
                                       Endpoint \o "#" \o operationName))
    /\ pc' = "sending"
    /\ client' = [client EXCEPT !.config.Password = ""]
    /\ debugWrites' = debugWrites
    /\ UNCHANGED <<ctxErr, httpResp, respDoc, ioErr, ret, now, ticks, envelope, mainpc, mReq, mOut, goroutines, started, instant, written>>
    /\ wire' = IF ctxErr = ""
               THEN Append(wire, NewRequest(marshalSOAPRequest(payload),
                                            Endpoint \o "#" \o operationName))
               ELSE wire

\* the call marshals payload and enters doRequest, which sends the request
Begin(o, a, payload, operationName) ==
    /\ op' = o
    /\ args' = a
    /\ sent' = Append(sent, NewRequest(marshalSOAPRequest(payload),
                                       Endpoint \o "#" \o operationName))
    /\ pc' = "sending"
    /\ UNCHANGED <<ctxErr, httpResp, respDoc, ioErr, ret, now, ticks, envelope, client, mainpc, mReq, mOut, goroutines, started, instant, written>>
    /\ debugWrites' \in (IF client.debugFiles
                         THEN { Append(debugWrites, writeDebugFile(operationName \o "_request", ok)) : ok \in BOOLEAN }
                         ELSE {debugWrites})
    /\ wire' = IF ctxErr = ""
               THEN Append(wire, NewRequest(marshalSOAPRequest(payload),
                                            Endpoint \o "#" \o operationName))
               ELSE wire

CallGetVersion ==
    /\ pc = "idle"
    /\ Begin("GetVersion", NoArgs, GetVersionRequest, "getVersion")
    /\ UNCHANGED readings

CallCreateShipments ==
    /\ pc = "idle"
    /\ \E shipments \in SeqsUpTo(ShipmentItems, MaxItems) :
         Begin("CreateShipments", Args(shipments, "", "", 0, 0),
               CreateShipmentsRequest(shipments), "createShipments")
    /\ UNCHANGED readings

CallCreateShipment ==
    /\ pc = "idle"
    /\ \E shipment \in ShipmentItems :
         Begin("CreateShipment", Args(<<shipment>>, "", "", 0, 0),
               CreateShipmentsRequest(<<shipment>>), "createShipments")
    /\ UNCHANGED readings

CallGetMyShipments ==
    /\ pc = "idle"
    /\ \E createdFrom \in DateArgs, createdTo \in DateArgs, offset \in Offsets :
         Begin("GetMyShipments", Args(<<>>, createdFrom, createdTo, offset, 0),
               GetMyShipmentsRequest(createdFrom, createdTo, offset), "getMyShipments")
    /\ UNCHANGED readings

\* client.go 246: createdTo := time.Now().Format("2006-01-02")
CallGetMyShipmentsLastDays ==
    /\ pc = "idle"
    /\ \E days \in (IF mainpc = "" THEN Days ELSE {7}) :
         /\ op' = "GetMyShipmentsLastDays"
         /\ args' = Args(<<>>, "", LastDaysCreatedTo(now), 0, days)
    /\ readings' = <<now>>
    /\ pc' = "lastdays"
    /\ UNCHANGED <<sent, ctxErr, httpResp, respDoc, ioErr, ret, now, ticks, envelope, client, debugWrites, mainpc, wire, mReq, mOut, goroutines, started, instant, written>>

\* client.go 247-248: createdFrom := time.Now().AddDate(0, 0, -days).Format(...)
\* and the call of GetMyShipments with offset 0
LastDaysCreatedFrom ==
    /\ pc = "lastdays"
    /\ LET createdFrom == LastDaysCreatedFromDate(now, args.days) IN
         Begin(op, [args EXCEPT !.createdFrom = createdFrom],
               GetMyShipmentsRequest(createdFrom, args.createdTo, 0), "getMyShipments")
    /\ readings' = Append(readings, now)

\* the calendar date after t
NextDay(t) ==
    IF t.day < DaysBefore(t.year, t.month + 1) - DaysBefore(t.year, t.month)
    THEN Time(t.year, t.month, t.day + 1)
    ELSE IF t.month < 12 THEN Time(t.year, t.month + 1, 1)
    ELSE Time(t.year + 1, 1, 1)

\* midnight passes
Tick ==
    /\ pc \in {"idle", "lastdays"}
    /\ ticks < MaxTicks
    /\ now' = NextDay(now)
    /\ ticks' = ticks + 1
    /\ UNCHANGED <<pc, op, args, readings, sent, ctxErr, httpResp, respDoc, ioErr, ret, envelope, client, debugWrites, mainpc, wire, mReq, mOut, goroutines, started, instant, written>>

\* the caller's context is cancelled or its deadline passes while the
\* request is in flight
Cancel ==
    /\ pc \in {"sending", "reading"}
    /\ ctxErr = ""
    /\ ctxErr' \in CtxErrors
    /\ UNCHANGED <<pc, op, args, readings, sent, httpResp, respDoc, ioErr, ret, now, ticks, envelope, client, debugWrites, mainpc, wire, mReq, mOut, goroutines, started, instant, written>>

\* client.go 112-115: httpClient.Do fails; with the context fired it fails
\* with the context's error
DoFails ==
    /\ pc = "sending"
    /\ \E cause \in (IF ctxErr = "" THEN TransportCauses ELSE {ctxErr}) :
         /\ ioErr' = cause
         /\ ret' = Continue(op, doRequestDoError(cause))
    /\ pc' = "done"
    /\ UNCHANGED <<op, args, readings, sent, ctxErr, httpResp, respDoc, now, ticks, envelope, client, debugWrites, mainpc, wire, mReq, mOut, goroutines, started, instant, written>>

\* client.go 112: httpClient.Do returns the response, its body still unread
DoReturns ==
    /\ pc = "sending"
    /\ ctxErr = ""
    /\ httpResp' \in Responses
    /\ pc' = "reading"
    /\ UNCHANGED <<op, args, readings, sent, ctxErr, respDoc, ioErr, ret, now, ticks, envelope, client, debugWrites, mainpc, wire, mReq, mOut, goroutines, started, instant, written>>

\* client.go 118-121: io.ReadAll fails
ReadFails ==
    /\ pc = "reading"
    /\ \E cause \in (IF ctxErr = "" THEN TransportCauses ELSE {ctxErr}) :
         /\ ioErr' = cause
         /\ ret' = Continue(op, doRequestReadError(httpResp, cause))
    /\ pc' = "done"
    /\ UNCHANGED <<op, args, readings, sent, ctxErr, httpResp, respDoc, now, ticks, envelope, client, debugWrites, mainpc, wire, mReq, mOut, goroutines, started, instant, written>>

\* client.go 118-127: io.ReadAll returns the whole body; the method decodes
\* it and returns
ReadOk ==
    /\ pc = "reading"
    /\ ctxErr = ""
    /\ \E doc \in Docs :
         /\ respDoc' = doc
         /\ ret' = Continue(op, doRequestOk(httpResp, doc))
    /\ pc' = "done"
    /\ UNCHANGED <<op, args, readings, sent, ctxErr, httpResp, ioErr, now, ticks, client, mainpc, wire, mReq, mOut, goroutines, started, instant, written>>
    /\ envelope' = Unmarshal(respDoc', EnvelopeFields(op)).envelope
    /\ debugWrites' \in (IF client.debugFiles
                         THEN { Append(debugWrites, writeDebugFile(operationNameOf(op) \o "_response", ok)) : ok \in BOOLEAN }
                         ELSE {debugWrites})

\* the caller takes the result; the next call starts afresh
Return ==
    /\ pc = "done"
    /\ pc' = "idle"
    /\ op' = ""
    /\ args' = NoArgs
    /\ readings' = <<>>
    /\ sent' = <<>>
    /\ ctxErr' = ""
    /\ httpResp' = NoResp
    /\ respDoc' = NoDoc
    /\ ioErr' = ""
    /\ ret' = NoResult
    /\ UNCHANGED <<now, ticks, client, mainpc, mReq, mOut, goroutines, started, instant, written>>
    /\ envelope' = EmptyEnvelope
    /\ debugWrites' = <<>>
    /\ wire' = <<>>

Next ==
    \/ CallGetVersion
    \/ CallCreateShipments
    \/ CallCreateShipment
    \/ CallGetMyShipments
    \/ CallGetMyShipmentsLastDays
    \/ LastDaysCreatedFrom
    \/ Tick
    \/ Cancel
    \/ DoFails
    \/ DoReturns
    \/ ReadFails
    \/ ReadOk
    \/ Return

Spec == Init /\ [][Next]_vars

---------------------------------------------------------------------------
(* The executable: main loads the configuration, builds one context with a *)
(* timeout of 15 seconds and one client, and runs testGetVersion and then  *)
(* testGetMyShipments with them.                                           *)

InitMain ==
    /\ NewState
    /\ mainpc = "main"

\* part_000 14-19: LoadConfig fails and main exits with status 1
LoadConfigFails ==
    /\ mainpc = "main"
    /\ mainpc' = "exit"
    /\ UNCHANGED <<pc, op, args, readings, sent, ctxErr, httpResp, respDoc, ioErr, ret,
                   now, ticks, envelope, client, debugWrites, wire, mReq, mOut, goroutines, started, instant, written>>

\* part_000 21-25: the context and the client are built
MainStart ==
    /\ mainpc = "main"
    /\ mainpc' = "testGetVersion"
    /\ UNCHANGED <<pc, op, args, readings, sent, ctxErr, httpResp, respDoc, ioErr, ret,
                   now, ticks, envelope, client, debugWrites, wire, mReq, mOut, goroutines, started, instant, written>>

\* part_000 38: client.GetVersion(ctx)
testGetVersion ==
    /\ mainpc = "testGetVersion"
    /\ CallGetVersion

\* part_000 107: client.GetMyShipmentsLastDays(ctx, 7)
testGetMyShipments ==
    /\ mainpc = "testGetMyShipments"
    /\ CallGetMyShipmentsLastDays

\* part_000 21: the 15 seconds of main's context pass, whatever main is doing
Deadline ==
    /\ mainpc \in {"testGetVersion", "testGetMyShipments"}
    /\ ctxErr = ""
    /\ ctxErr' = "context deadline exceeded"
    /\ UNCHANGED <<pc, op, args, readings, sent, httpResp, respDoc, ioErr, ret,
                   now, ticks, envelope, client, debugWrites, wire, mainpc, mReq, mOut, goroutines, started, instant, written>>

\* part_000 39-47, 108-117: the test function prints the error or the result
\* and returns; the context and the client stay as they are
TestReturns ==
    /\ mainpc \in {"testGetVersion", "testGetMyShipments"}
    /\ pc = "done"
    /\ mainpc' = IF mainpc = "testGetVersion" THEN "testGetMyShipments" ELSE "exit"
    /\ pc' = "idle"
    /\ op' = ""
    /\ args' = NoArgs
    /\ readings' = <<>>
    /\ sent' = <<>>
    /\ httpResp' = NoResp
    /\ respDoc' = NoDoc
    /\ ioErr' = ""
    /\ ret' = NoResult
    /\ envelope' = EmptyEnvelope
    /\ debugWrites' = <<>>
    /\ UNCHANGED <<ctxErr, now, ticks, client, wire, mReq, mOut, goroutines, started, instant, written>>

NextMain ==
    \/ LoadConfigFails
    \/ MainStart
    \/ testGetVersion
    \/ testGetMyShipments
    \/ LastDaysCreatedFrom
    \/ Tick
    \/ Deadline
    \/ DoFails
    \/ DoReturns
    \/ ReadFails
    \/ ReadOk
    \/ TestReturns

SpecMain == InitMain /\ [][NextMain]_vars

---------------------------------------------------------------------------
(* The bytes of a request.  A text is a sequence of characters; a value    *)
(* without markup characters may stand as one character.  The names of     *)
(* elements and attributes, the numerals and the newline with the          *)
(* indentation after it are one character each.                            *)

\* the characters xml.EscapeText rewrites in the texts of the model, and a plain one
Markup == {"<", ">", "&", "\"", "'"}
Alphabet == Markup \cup {"a"}
Texts == SeqsUpTo(Alphabet, MaxText)
\* a value without markup characters
Text(v) == <<v>>

\* an escaping that lets the less-than sign through
EscapeChar_KeepsLessThan(c) ==
    CASE c = ">" -> <<"&", "gt", ";">>
      [] c = "&" -> <<"&", "amp", ";">>
      [] c = "\"" -> <<"&", "#34", ";">>
      [] c = "'" -> <<"&", "#39", ";">>
      [] OTHER -> <<c>>

\* xml.EscapeText, for one character
EscapeChar(c) ==
    CASE c = "<" -> <<"&", "lt", ";">>
      [] c = ">" -> <<"&", "gt", ";">>
      [] c = "&" -> <<"&", "amp", ";">>
      [] c = "\"" -> <<"&", "#34", ";">>
      [] c = "'" -> <<"&", "#39", ";">>
      [] OTHER -> <<c>>

RECURSIVE Concat(_)
Concat(parts) == IF parts = <<>> THEN <<>> ELSE Head(parts) \o Concat(Tail(parts))

\* xml.EscapeText
EscapeText(text) == Concat([i \in 1..Len(text) |-> EscapeChar(text[i])])

\* the numerals of encoding/xml: strconv.FormatInt, strconv.FormatBool and
\* strconv.FormatFloat(f, 'g', -1, 64), the float given in tenths
FormatInt(n) == ToString(n)
FormatBool(b) == IF b THEN "true" ELSE "false"
FormatFloat(tenths) ==
    IF tenths % 10 = 0 THEN ToString(tenths \div 10)
    ELSE ToString(tenths \div 10) \o "." \o ToString(tenths % 10)

StartTag(name) == <<"<", name, ">">>
EndTag(name) == <<"<", "/", name, ">">>

\* the children that are written: an omitted one has no bytes
Present(kids) == SelectSeq(kids, LAMBDA k : k # <<>>)

\* xml.MarshalIndent for a struct: every child on a line of its own, and the
\* end tag too when there are children
Elem(name, kids) ==
    LET present == Present(kids) IN
        StartTag(name)
        \o Concat([i \in 1..Len(present) |-> <<"\n">> \o present[i]])
        \o (IF present = <<>> THEN <<>> ELSE <<"\n">>)
        \o EndTag(name)

\* a string, int, bool or float field
Leaf(name, text) == StartTag(name) \o EscapeText(text) \o EndTag(name)
\* a string field tagged omitempty
OmitEmpty(name, text) == IF text = <<>> THEN <<>> ELSE Leaf(name, text)

\* an Address that also leaves out an empty contactPhone
MarshalAddress_OmitsPhone(name, a) ==
    Elem(name, << OmitEmpty("country", a.Country), Leaf("name", a.Name),
                  Leaf("postalCode", a.PostalCode), Leaf("city", a.City),
                  Leaf("street", a.Street), Leaf("houseNumber", a.HouseNumber),
                  OmitEmpty("apartmentNumber", a.ApartmentNumber),
                  OmitEmpty("contactPerson", a.ContactPerson),
                  OmitEmpty("contactPhone", a.ContactPhone),
                  Leaf("contactEmail", a.ContactEmail) >>)

\* types.go 94-105
MarshalAddress(name, a) ==
    Elem(name, << OmitEmpty("country", a.Country), Leaf("name", a.Name),
                  Leaf("postalCode", a.PostalCode), Leaf("city", a.City),
                  Leaf("street", a.Street), Leaf("houseNumber", a.HouseNumber),
                  OmitEmpty("apartmentNumber", a.ApartmentNumber),
                  OmitEmpty("contactPerson", a.ContactPerson),
                  Leaf("contactPhone", a.ContactPhone),
                  Leaf("contactEmail", a.ContactEmail) >>)

\* types.go 108-112
MarshalPiece(p) ==
    Elem("item", << Leaf("type", p.Type), Leaf("quantity", <<FormatInt(p.Quantity)>>),
                    Leaf("weight", <<FormatFloat(p.Weight)>>) >>)

\* types.go 115-117
MarshalPieceList(l) == Elem("pieceList", [i \in 1..Len(l) |-> MarshalPiece(l[i])])

\* types.go 120-125
MarshalPayment(p) ==
    Elem("payment", << Leaf("paymentType", p.PaymentType), Leaf("payerType", p.PayerType),
                       Leaf("accountNumber", p.AccountNumber),
                       Leaf("paymentMethod", p.PaymentMethod) >>)

\* types.go 163-173
MarshalShipmentItem(it) ==
    Elem("item", << MarshalAddress("shipper", it.Shipper),
                    MarshalAddress("receiver", it.Receiver),
                    MarshalPieceList(it.PieceList),
                    MarshalPayment(it.Payment),
                    Elem("service", << Leaf("product", it.Service.Product) >>),
                    Leaf("shipmentDate", it.ShipmentDate),
                    Leaf("skipRestrictionCheck", <<FormatBool(it.SkipRestrictionCheck)>>),
                    Leaf("comment", it.Comment),
                    Leaf("content", it.Content) >>)

\* types.go 88-91
MarshalAuthData(a) ==
    Elem("authData", << Leaf("username", a.username), Leaf("password", a.password) >>)

\* the payload types: types.go 137-139, 151-160, 197-203
MarshalPayload(p) ==
    CASE p.XMLName = "ns:createShipments" ->
           Elem(p.XMLName,
                << MarshalAuthData(p.authData),
                   Elem("shipments", [i \in 1..Len(p.shipments) |->
                                        MarshalShipmentItem(p.shipments[i])]) >>)
      [] p.XMLName = "ns:getMyShipments" ->
           Elem(p.XMLName,
                << MarshalAuthData(p.authData), Leaf("createdFrom", p.createdFrom),
                   Leaf("createdTo", p.createdTo),
                   Leaf("offset", <<FormatInt(p.offset)>>) >>)
      [] OTHER -> Elem(p.XMLName, <<>>)

\* an attribute of a start tag
Attr(name, value) == <<" ", name, "=", "\"">> \o EscapeText(Text(value)) \o <<"\"">>

\* xml.MarshalIndent(envelope, "", "  ") for the SOAPEnvelope e
MarshalIndent(e) ==
    <<"<", "soapenv:Envelope">> \o Attr("xmlns:soapenv", e.soapenv)
    \o Attr("xmlns:ns", e.ns) \o <<">">>
    \o <<"\n">> \o Elem("soapenv:Header", e.Header)
    \o <<"\n">> \o Elem("soapenv:Body", << MarshalPayload(e.Body) >>)
    \o <<"\n">> \o EndTag("soapenv:Envelope")

\* client.go 95: the XML declaration (xml.Header ends with a newline), then
\* the marshalled envelope
Bytes(e) == <<e.header, "\n">> \o MarshalIndent(e)

\* the values the requests of the model are made of (part_000 52-93)
Address(country, name, apartmentNumber, contactPerson, contactPhone) ==
    [Country |-> country, Name |-> name, PostalCode |-> Text("01249"),
     City |-> Text("Warsaw"), Street |-> Text("GOLESZOWSKA"), HouseNumber |-> Text("3"),
     ApartmentNumber |-> apartmentNumber, ContactPerson |-> contactPerson,
     ContactPhone |-> contactPhone, ContactEmail |-> Text("sender@example.com")]
\* Piece: Weight in tenths
Pieces ==
    { [Type |-> Text("ENVELOPE"), Quantity |-> 1, Weight |-> 5],
      [Type |-> Text("PACKAGE"), Quantity |-> 2, Weight |-> 120] }
Payment ==
    [PaymentType |-> Text("BANK_TRANSFER"), PayerType |-> Text("SHIPPER"),
     AccountNumber |-> Text(config.AccountNumber),
     PaymentMethod |-> Text("BANK_TRANSFER")]
ShipmentItem(receiver, pieces, comment, content) ==
    [Shipper |-> Address(<<>>, Text("ESMALTE INC"), <<>>, <<>>, Text("123456789")),
     Receiver |-> receiver, PieceList |-> pieces, Payment |-> Payment,
     Service |-> [Product |-> Text("AH")], ShipmentDate |-> Text("2024-06-11"),
     SkipRestrictionCheck |-> TRUE, Comment |-> comment, Content |-> content]

\* the string fields a caller fills with a text of its own, one at a time
TextFields == {"country", "name", "apartmentNumber", "contactPerson", "contactPhone",
               "comment", "content"}
\* the shipment whose field f holds text t, the other fields as in part_000
ItemWith(f, t, pieces) ==
    ShipmentItem(Address(IF f = "country" THEN t ELSE Text("PL"),
                         IF f = "name" THEN t ELSE Text("Test Receiver"),
                         IF f = "apartmentNumber" THEN t ELSE <<>>,
                         IF f = "contactPerson" THEN t ELSE <<>>,
                         IF f = "contactPhone" THEN t ELSE Text("987654321")),
                 pieces,
                 IF f = "comment" THEN t ELSE <<>>,
                 IF f = "content" THEN t ELSE Text("test content"))
\* the shipments of the requests with more than one item
FewItems ==
    { ItemWith("comment", t, pieces) :
        t \in {<<>>, <<"<">>},
        pieces \in {<<>>} \cup { p \in [1..2 -> Pieces] : p[1] # p[2] } }
\* the shipment lists handed to CreateShipments: one shipment with a text of
\* the caller's, one shipment with up to MaxPieces pieces, up to MaxItems
\* shipments
ShipmentLists ==
    { <<ItemWith(f, t, <<>>)>> : f \in TextFields, t \in Texts }
    \cup { <<ItemWith("comment", <<>>, pieces)>> : pieces \in SeqsUpTo(Pieces, MaxPieces) }
    \cup SeqsUpTo(FewItems, MaxItems)

\* the credentials as text: those of the client, or a text of the caller's
TextAuthData == [username |-> Text(authData.username), password |-> Text(authData.password)]
AuthDatas(t) ==
    { TextAuthData,
      [username |-> t, password |-> Text(authData.password)],
      [username |-> Text(authData.username), password |-> t] }

allButMarshal ==
    <<pc, op, args, readings, sent, ctxErr, httpResp, respDoc, ioErr, ret, now, ticks,
      envelope, client, debugWrites, mainpc, wire, goroutines, started, instant, written>>

\* client.go 82-96: marshalSOAPRequest(body)
Marshal(payload) ==
    /\ mReq' = payload
    /\ mOut' = Bytes(marshalSOAPRequest(payload))
    /\ UNCHANGED allButMarshal

\* client.go 141: c.marshalSOAPRequest(&GetVersionRequest{})
MarshalGetVersion ==
    /\ mReq.XMLName = ""
    /\ Marshal(GetVersionRequest)

\* client.go 172-179
MarshalCreateShipments ==
    /\ mReq.XMLName = ""
    /\ \E shipments \in ShipmentLists :
        Marshal([CreateShipmentsRequest(shipments) EXCEPT !.authData = TextAuthData])

\* client.go 219-226
MarshalGetMyShipments ==
    /\ mReq.XMLName = ""
    /\ \E t \in Texts, offset \in Offsets : \E a \in AuthDatas(t) :
      \E createdFrom \in {Text("2024-06-03"), t}, createdTo \in {Text("2024-06-10"), t} :
        Marshal([GetMyShipmentsRequest(createdFrom, createdTo, offset) EXCEPT !.authData = a])

\* the bytes go to doRequest
MarshalReturns ==
    /\ mReq.XMLName # ""
    /\ mReq' = NoPayload
    /\ mOut' = <<>>
    /\ UNCHANGED allButMarshal

InitMarshal ==
    /\ NewState
    /\ mainpc = ""
    /\ now = Time(2024, 6, 10)
    /\ client = NewClient(DHL24Config(FALSE, ""))

NextMarshal ==
    \/ MarshalGetVersion
    \/ MarshalCreateShipments
    \/ MarshalGetMyShipments
    \/ MarshalReturns

SpecMarshal == InitMarshal /\ [][NextMarshal]_vars

---------------------------------------------------------------------------
(* The debug files of doRequest, for calls that run one after another or   *)
(* side by side on one client.  The clock of writeDebugFile starts at      *)
(* midnight of `now` and moves in instants shorter than a millisecond.     *)

\* how many instants of the clock make a millisecond
InstantsPerMilli == 2

Pad3(k) ==
    IF k < 10 THEN "00" \o ToString(k)
    ELSE IF k < 100 THEN "0" \o ToString(k) ELSE ToString(k)
\* client.go 70: time.Now().Format("20060102_150405.000") at instant i
Timestamp(t, i) ==
    ToString(t.year) \o Pad2(t.month) \o Pad2(t.day) \o "_000000."
    \o Pad3(i \div InstantsPerMilli)
\* client.go 71-72: the path of the debug file written for prefix at instant i
DebugFilePath(prefix, i) ==
    writeDebugFile(prefix, TRUE).dir \o "/" \o prefix \o "_" \o Timestamp(now, i) \o ".xml"

\* client.go 100-102, 123-125 with 59-79: with debugFiles on, the payload of
\* the call is written to the file named after prefix and the clock, unless
\* MkdirAll or WriteFile fails
DebugFilesAfter(call, prefix, ok) ==
    IF client.debugFiles /\ ok
    THEN written \cup { [path |-> DebugFilePath(prefix, instant), call |-> call.id,
                         milli |-> instant \div InstantsPerMilli] }
    ELSE written

allButDebug ==
    <<pc, op, args, readings, sent, ctxErr, httpResp, respDoc, ioErr, ret, now, ticks,
      envelope, client, debugWrites, mainpc, wire, mReq, mOut>>

\* client.go 99-112: a goroutine enters doRequest, which writes the request
\* file and sends the request
DebugCall(g) ==
    /\ goroutines[g] = NoCall
    /\ started < MaxCalls
    /\ \E o \in Ops, ok \in BOOLEAN :
         LET call == [id |-> started + 1, operationName |-> operationNameOf(o)] IN
           /\ goroutines' = [goroutines EXCEPT ![g] = call]
           /\ written' = DebugFilesAfter(call, call.operationName \o "_request", ok)
    /\ started' = started + 1
    /\ UNCHANGED instant
    /\ UNCHANGED allButDebug

\* client.go 112-121: httpClient.Do or io.ReadAll fails and doRequest returns
DebugFails(g) ==
    /\ goroutines[g] # NoCall
    /\ goroutines' = [goroutines EXCEPT ![g] = NoCall]
    /\ UNCHANGED <<started, instant, written>>
    /\ UNCHANGED allButDebug

\* client.go 118-127: the body is read, the response file is written and
\* doRequest returns
DebugResponds(g) ==
    /\ goroutines[g] # NoCall
    /\ \E ok \in BOOLEAN :
         written' = DebugFilesAfter(goroutines[g],
                                    goroutines[g].operationName \o "_response", ok)
    /\ goroutines' = [goroutines EXCEPT ![g] = NoCall]
    /\ UNCHANGED <<started, instant>>
    /\ UNCHANGED allButDebug

\* time passes
Advance ==
    /\ instant < MaxInstants
    /\ instant' = instant + 1
    /\ UNCHANGED <<goroutines, started, written>>
    /\ UNCHANGED allButDebug

InitDebug ==
    /\ NewState
    /\ mainpc = ""
    /\ now = Time(2024, 6, 10)

NextDebug ==
    \/ \E g \in Goroutines : DebugCall(g)
    \/ \E g \in Goroutines : DebugFails(g)
    \/ \E g \in Goroutines : DebugResponds(g)
    \/ Advance

SpecDebug == InitDebug /\ [][NextDebug]_vars

---------------------------------------------------------------------------
(* Properties.  They speak of the response document itself, not of the     *)
(* decoded envelope.                                                       *)

\* the document was read whole, is complete and has the Envelope root
ParsesAsEnvelope(doc) == doc.root = "Envelope" /\ doc.cut = NoCut
\* the body was read and xml.Unmarshal cannot parse it
Malformed(doc) == doc # NoDoc /\ ~ParsesAsEnvelope(doc)
\* the Body holds an element with this tag
HasElement(doc, tag) == \E i \in 1..Len(doc.children) : doc.children[i].tag = tag

RECURSIVE CreatedItems(_)
\* the item elements of createShipmentsResult, in document order
CreatedItems(children) ==
    IF children = <<>> THEN <<>>
    ELSE (IF Head(children).tag = "createShipmentsResponse"
          THEN Head(children).created ELSE <<>>) \o CreatedItems(Tail(children))

Returned(o) == pc = "done" /\ op = o
EmptyResponseMessages ==
    {"empty getVersion response", "empty createShipments response",
     "empty getMyShipments response"}
TransportMessages == {"error creating request", "error making request", "error reading response"}

\* C1: CreateShipments called with k >= 1 shipments returns a non-nil error
\* and no confirmations when the decoded response carries fewer than k item
\* elements in createShipmentsResult.
C1_FewerConfirmationsIsAnError ==
    ( /\ Returned("CreateShipments")
      /\ Len(args.shipments) >= 1
      /\ ParsesAsEnvelope(respDoc)
      /\ HasElement(respDoc, "createShipmentsResponse")
      /\ Len(CreatedItems(respDoc.children)) < Len(args.shipments) )
    => (ret.err # NilErr /\ ret.created = <<>>)

\* C2: GetMyShipments returns a non-nil error when the response parses as an
\* envelope whose body has no getMyShipmentsResponse element.
C2_MissingListSlotIsAnError ==
    ( /\ Returned("GetMyShipments")
      /\ ParsesAsEnvelope(respDoc)
      /\ ~HasElement(respDoc, "getMyShipmentsResponse") )
    => ret.err # NilErr

\* C3: when the body carries a fault, GetVersion, CreateShipments and
\* GetMyShipments return a non-nil error that carries the fault code and is
\* neither the transport error nor the empty-response error.
C3_FaultIsADistinctError ==
    ( /\ pc = "done"
      /\ op \in {"GetVersion", "CreateShipments", "GetMyShipments"}
      /\ ParsesAsEnvelope(respDoc)
      /\ HasElement(respDoc, "Fault") )
    => /\ ret.err # NilErr
       /\ \E i \in 1..Len(respDoc.children) :
            respDoc.children[i].tag = "Fault" /\ ret.err.cause = respDoc.children[i].text
       /\ ret.err.msg \notin EmptyResponseMessages \cup TransportMessages

\* C4: GetVersion returns a non-nil error and an empty version when the
\* response parses as an envelope without a getVersionResponse element; it
\* returns a nil error only when the element is there, and then the version is
\* the text of its getVersionResult.
C4_GetVersionSlot ==
    Returned("GetVersion") =>
        /\ (ParsesAsEnvelope(respDoc) /\ ~HasElement(respDoc, "getVersionResponse"))
              => (ret.err # NilErr /\ ret.version = "")
        /\ ret.err = NilErr =>
              /\ ParsesAsEnvelope(respDoc)
              /\ \E i \in 1..Len(respDoc.children) :
                   /\ respDoc.children[i].tag = "getVersionResponse"
                   /\ ret.version = respDoc.children[i].text

\* reached for C4: a nil error with version 2.13.3
C4_Witness_Version ==
    /\ Returned("GetVersion")
    /\ ret.err = NilErr
    /\ ret.version = "2.13.3"
    /\ respDoc.children = <<Element("getVersionResponse", "2.13.3", <<>>, <<>>)>>

\* C5: CreateShipments returns a non-nil error and a nil result when the
\* response parses as an envelope without a createShipmentsResponse element;
\* it returns a nil error only when the element is there.
C5_CreateShipmentsSlot ==
    Returned("CreateShipments") =>
        /\ (ParsesAsEnvelope(respDoc) /\ ~HasElement(respDoc, "createShipmentsResponse"))
              => (ret.err # NilErr /\ ret.created = <<>>)
        /\ ret.err = NilErr =>
              (ParsesAsEnvelope(respDoc) /\ HasElement(respDoc, "createShipmentsResponse"))

\* reached for C5: the body holds only another operation's response
C5_Witness_OtherSlot ==
    /\ Returned("CreateShipments")
    /\ ParsesAsEnvelope(respDoc)
    /\ Len(respDoc.children) = 1
    /\ respDoc.children[1].tag = "getVersionResponse"
    /\ ret.err = Errorf("empty createShipments response")

\* C6: CreateShipment submits exactly one shipment through CreateShipments,
\* passes on its error unchanged, returns the error "no shipment created" when
\* the response carries no confirmation, and otherwise the first confirmation.
C6_CreateShipmentWrapper ==
    Returned("CreateShipment") =>
        /\ Len(sent) = 1
        /\ sent[1].body.Body = CreateShipmentsRequest(args.shipments)
        /\ Len(args.shipments) = 1
        /\ respDoc = NoDoc =>
              ret.err \in { ErrorfW("error making request", ioErr),
                            ErrorfW("error reading response", ioErr) }
        /\ Malformed(respDoc) => ret.err.msg = "error parsing response"
        /\ (ParsesAsEnvelope(respDoc) /\ ~HasElement(respDoc, "createShipmentsResponse"))
              => ret.err = Errorf("empty createShipments response")
        /\ ( /\ ParsesAsEnvelope(respDoc)
             /\ HasElement(respDoc, "createShipmentsResponse")
             /\ CreatedItems(respDoc.children) = <<>> )
              => ret.err = Errorf("no shipment created")
        /\ ( /\ ParsesAsEnvelope(respDoc)
             /\ HasElement(respDoc, "createShipmentsResponse")
             /\ CreatedItems(respDoc.children) # <<>> )
              => /\ ret.err = NilErr
                 /\ ret.single = <<Head(CreatedItems(respDoc.children))>>
        /\ ret.err # NilErr => ret.single = <<>>

\* reached for C6: two different confirmations returned for the one shipment
C6_Witness_FirstOfTwo ==
    /\ Returned("CreateShipment")
    /\ ParsesAsEnvelope(respDoc)
    /\ Len(CreatedItems(respDoc.children)) = 2
    /\ CreatedItems(respDoc.children)[1] # CreatedItems(respDoc.children)[2]
    /\ ret.single = <<CreatedItems(respDoc.children)[1]>>
    /\ ret.err = NilErr

\* reached for C6: a response without confirmations
C6_Witness_NoShipment ==
    /\ Returned("CreateShipment")
    /\ ret.err = Errorf("no shipment created")

C8_OneRequestNoRetry ==
    /\ Len(sent) <= 1
    /\ pc \in {"sending", "reading", "done"} => Len(sent) = 1
    /\ (pc = "done" /\ ioErr # "") =>
          /\ ret.err.msg \in {"error making request", "error reading response"}
          /\ ret.err.cause = ioErr
    /\ (pc = "done" /\ Malformed(respDoc)) =>
          /\ ret.err.msg = "error parsing response"
          /\ ret.err.cause \in {XMLSyntaxError, XMLRootError}

\* reached for C8: CreateShipments ended by a transport error after one request
C8_Witness_TransportError ==
    /\ Returned("CreateShipments")
    /\ Len(args.shipments) = 2
    /\ ioErr = "connection refused"
    /\ ret.err = ErrorfW("error making request", "connection refused")
    /\ Len(sent) = 1

\* C9: when the context fires while the request is in flight, the call ends
\* with an error wrapping the context's error, never with the parse error and
\* never with a success.
C9_CancelIsCancellationError ==
    (pc = "done" /\ ctxErr # "") =>
        /\ ret.err # NilErr
        /\ ret.err.cause = ctxErr
        /\ ret.err.msg # "error parsing response"

\* reached for C9: the deadline passed while the body was being read
C9_Witness_CancelWhileReading ==
    /\ pc = "done"
    /\ ctxErr = "context deadline exceeded"
    /\ httpResp # NoResp
    /\ ret.err = ErrorfW("error reading response", "context deadline exceeded")

\* the calendar date before t, by the lengths of the months
MonthLength(y, m) ==
    IF m = 2 THEN (IF IsLeap(y) THEN 29 ELSE 28)
    ELSE IF m \in {4, 6, 9, 11} THEN 30 ELSE 31
DayBefore(t) ==
    IF t.day > 1 THEN Time(t.year, t.month, t.day - 1)
    ELSE IF t.month > 1 THEN Time(t.year, t.month - 1, MonthLength(t.year, t.month - 1))
    ELSE Time(t.year - 1, 12, 31)
RECURSIVE DaysBack(_, _)
\* the calendar date n days before t
DaysBack(t, n) == IF n = 0 THEN t ELSE DaysBack(DayBefore(t), n - 1)

\* YYYY-MM-DD, digit by digit
Digit(k) == <<"0", "1", "2", "3", "4", "5", "6", "7", "8", "9">>[k + 1]
TwoDigits(k) == Digit(k \div 10) \o Digit(k % 10)
IsoDate(t) ==
    TwoDigits(t.year \div 100) \o TwoDigits(t.year % 100) \o "-"
    \o TwoDigits(t.month) \o "-" \o TwoDigits(t.day)

RECURSIVE ListedItems(_)
\* the item elements of getMyShipmentsResult, in document order
ListedItems(children) ==
    IF children = <<>> THEN <<>>
    ELSE (IF Head(children).tag = "getMyShipmentsResponse"
          THEN Head(children).listed ELSE <<>>) \o ListedItems(Tail(children))

InFlightOrReturned == pc \in {"sending", "reading", "done"}

\* C11: GetMyShipments(createdFrom, createdTo, offset) sends one request that
\* carries exactly these three values and returns only the items of that one
\* response; it sends no follow-up request, also after a full response.
C11_NoAutoPagination ==
    (op = "GetMyShipments" /\ InFlightOrReturned) =>
        /\ Len(sent) = 1
        /\ sent[1].body.Body.XMLName = "ns:getMyShipments"
        /\ sent[1].body.Body.createdFrom = args.createdFrom
        /\ sent[1].body.Body.createdTo = args.createdTo
        /\ sent[1].body.Body.offset = args.offset
        /\ (pc = "done" /\ ret.err = NilErr) =>
              ret.listed = ListedItems(respDoc.children)

\* reached for C11: the longest listing, asked for from offset 100, is
\* returned after one request
C11_Witness_FullResponse ==
    /\ Returned("GetMyShipments")
    /\ args.offset = 100
    /\ Len(respDoc.children) = 1
    /\ Len(ret.listed) = MaxResultItems
    /\ ret.err = NilErr
    /\ Len(sent) = 1

\* C12: on success CreateShipments returns exactly the item elements of
\* createShipmentsResult in document order: nothing sorted, dropped, merged
\* or matched against the shipments submitted.
C12_ConfirmationsInDocumentOrder ==
    (Returned("CreateShipments") /\ ret.err = NilErr) =>
        ret.created = CreatedItems(respDoc.children)

\* reached for C12: the same confirmation returned twice for one shipment
C12_Witness_RepeatedConfirmation ==
    /\ Returned("CreateShipments")
    /\ Len(args.shipments) = 1
    /\ Len(ret.created) = 2
    /\ ret.created[1] = ret.created[2]
    /\ ret.err = NilErr

\* the operation names doRequest is called with
OperationNames == {"getVersion", "createShipments", "getMyShipments"}

\* C19: every HTTP request of every operation is a POST to the fixed endpoint
\* with Content-Type text/xml; charset=utf-8 and the SOAPAction
\* <endpoint>#<operation>, where <operation> names the request element of the
\* body.
C19_RequestHeaders ==
    \A i \in 1..Len(sent) :
        /\ sent[i].method = "POST"
        /\ sent[i].url = Endpoint
        /\ sent[i].contentType = "text/xml; charset=utf-8"
        /\ \E name \in OperationNames :
             /\ sent[i].soapAction = Endpoint \o "#" \o name
             /\ sent[i].body.Body.XMLName = "ns:" \o name
        /\ sent[i].body.Body.XMLName =
              ( CASE op = "GetVersion" -> "ns:getVersion"
                  [] op \in {"CreateShipments", "CreateShipment"} -> "ns:createShipments"
                  [] OTHER -> "ns:getMyShipments" )

\* reached for C19: the request of CreateShipment, which goes out as createShipments
C19_Witness_CreateShipment ==
    /\ op = "CreateShipment"
    /\ pc = "sending"
    /\ Len(sent) = 1
    /\ sent[1].soapAction = Endpoint \o "#createShipments"
    /\ sent[1].body.Body.XMLName = "ns:createShipments"

\* C20: in every request of GetMyShipmentsLastDays(n), createdFrom is the date
\* exactly n calendar days before createdTo, also when midnight passes
\* between the two readings of the clock.
C20_FromIsNDaysBeforeTo ==
    (op = "GetMyShipmentsLastDays" /\ InFlightOrReturned) =>
        /\ sent[1].body.Body.createdTo = IsoDate(readings[1])
        /\ sent[1].body.Body.createdFrom = IsoDate(DaysBack(readings[1], args.days))

\* the three response elements of the wire format
ResponseTags == {"getVersionResponse", "createShipmentsResponse", "getMyShipmentsResponse"}
\* the positions of the response elements in a Body
ResponseElements(children) ==
    { i \in 1..Len(children) : children[i].tag \in ResponseTags }

\* C13: a well-formed response whose body holds exactly one of the three
\* response elements decodes into the response envelope with exactly that slot
\* populated, holding the document's data unchanged, and the other two absent.
C13_ExactlyOneSlotDecoded ==
    ( /\ pc = "done"
      /\ op \in {"GetVersion", "CreateShipments", "CreateShipment"}
      /\ ParsesAsEnvelope(respDoc)
      /\ Cardinality(ResponseElements(respDoc.children)) = 1 )
    => LET e == respDoc.children[CHOOSE i \in ResponseElements(respDoc.children) : TRUE]
       IN /\ envelope.GetVersionResponse =
                (IF e.tag = "getVersionResponse"
                 THEN [present |-> TRUE, Version |-> e.text]
                 ELSE [present |-> FALSE, Version |-> ""])
          /\ envelope.CreateShipmentsResponse =
                (IF e.tag = "createShipmentsResponse"
                 THEN [present |-> TRUE, Items |-> e.created]
                 ELSE [present |-> FALSE, Items |-> <<>>])
          /\ envelope.GetMyShipmentsResponse =
                (IF e.tag = "getMyShipmentsResponse"
                 THEN [present |-> TRUE, Items |-> e.listed]
                 ELSE [present |-> FALSE, Items |-> <<>>])

\* reached for C13: a listing of two shipments decoded into the general
\* envelope, here after a fault element
C13_Witness_ListingSlot ==
    /\ Returned("GetVersion")
    /\ ParsesAsEnvelope(respDoc)
    /\ Len(respDoc.children) = 2
    /\ respDoc.children[1].tag = "Fault"
    /\ respDoc.children[2].tag = "getMyShipmentsResponse"
    /\ envelope.GetMyShipmentsResponse = [present |-> TRUE, Items |-> respDoc.children[2].listed]
    /\ ~envelope.GetVersionResponse.present
    /\ ~envelope.CreateShipmentsResponse.present

\* reached for C13: the version document of the wire format
C13_Witness_Version ==
    /\ Returned("GetVersion")
    /\ respDoc = Doc("Envelope", <<Element("getVersionResponse", "2.13.3", <<>>, <<>>)>>, NoCut)
    /\ envelope.GetVersionResponse = [present |-> TRUE, Version |-> "2.13.3"]
    /\ ret.version = "2.13.3"

\* what the transport did in the call that has returned, in the shape of
\* doRequest's return values
TransportOutcome ==
    IF ioErr # "" /\ httpResp = NoResp
    THEN [body |-> NoDoc, resp |-> NoResp, err |-> ErrorfW("error making request", ioErr)]
    ELSE IF ioErr # ""
    THEN [body |-> NoDoc, resp |-> httpResp, err |-> ErrorfW("error reading response", ioErr)]
    ELSE [body |-> respDoc, resp |-> httpResp, err |-> NilErr]

\* C15: debug logging is a pure side channel: what a call returns is
\* determined by the operation and the transport outcome alone, whatever
\* debugFiles is and whether the debug files could be written.
C15_DebugIsSideChannel ==
    pc = "done" => ret = Continue(op, TransportOutcome)

\* reached for C15: a call with debug files on whose request file could not be
\* written and whose response file could, returning the decoded version
C15_Witness_FailedWrite ==
    /\ Returned("GetVersion")
    /\ client.debugFiles
    /\ Len(debugWrites) = 2
    /\ ~debugWrites[1].written
    /\ debugWrites[1].prefix = "getVersion_request"
    /\ debugWrites[2].written
    /\ debugWrites[2].prefix = "getVersion_response"
    /\ ret.err = NilErr
    /\ ret.version = "2.13.3"

\* the credentials of the request body b
Credentials(b) == b.Body.authData

\* C18: no operation mutates the client: no step changes the credentials, the
\* debug settings or the HTTP client, and the request of a call is made of its
\* own arguments and the configuration the client was built with.
C18_ClientIsNeverMutated ==
    /\ [][client' = client]_vars
    /\ [](client \in { NewClient(c) : c \in Configs })
    /\ [](pc \in {"sending", "reading", "done"} =>
            /\ Len(sent) = 1
            /\ Credentials(sent[1].body) =
                 (IF op = "GetVersion" THEN NoAuth
                  ELSE [username |-> config.Username, password |-> config.Password])
            /\ sent[1].body.Body.shipments = args.shipments
            /\ sent[1].body.Body.createdFrom = args.createdFrom
            /\ sent[1].body.Body.createdTo = args.createdTo
            /\ sent[1].body.Body.offset = args.offset)

\* reached for C18: a call that failed has returned and the client still
\* holds the password it was built with
C18_Witness_AfterFailedCall ==
    /\ Returned("CreateShipments")
    /\ ret.err # NilErr
    /\ Len(args.shipments) = 2
    /\ client.config.Password = "secret"
    /\ client.httpClient.Timeout = 15

\* the listing requests among the requests of reqs
ListingRequests(reqs) ==
    { i \in 1..Len(reqs) : reqs[i].soapAction = Endpoint \o "#getMyShipments" }

\* C14: in main, whatever became of the version query, the listing of the
\* last 7 days runs: once testGetMyShipments is in doRequest or has returned,
\* its request has been built and sent.
C14_SecondOperationIsSent ==
    (mainpc = "testGetMyShipments" /\ pc \in {"sending", "reading", "done"})
    => /\ ListingRequests(sent) # {}
       /\ ListingRequests(wire) # {}

\* what main does guarantee after a failed version query: the listing request
\* is built and handed to httpClient.Do
C14_SecondOperationIsBuilt ==
    (mainpc = "testGetMyShipments" /\ pc \in {"sending", "reading", "done"})
    => /\ Len(sent) = 1
       /\ ListingRequests(sent) = {1}
       /\ sent[1].body.Body.createdTo = args.createdTo

\* Reading a request back.  An event is a start tag, an end tag, a character
\* of text or "broken" (markup that is not well formed).
Event(kind, name) == [kind |-> kind, name |-> name]
\* the character references and what they stand for
Entity(code) ==
    CASE code = "lt" -> "<" [] code = "gt" -> ">" [] code = "amp" -> "&"
      [] code = "#34" -> "\"" [] code = "#39" -> "'" [] OTHER -> ""
\* the shapes of markup in the bytes s at position i: a start tag < name >,
\* an end tag < / name >, the start tag of the envelope with its two
\* attributes, a character reference & code ;
NameAt(s, i) == i <= Len(s) /\ s[i] \notin {"<", ">", "/", "&", "\n"}
StartAt(s, i) == s[i] = "<" /\ i + 2 <= Len(s) /\ NameAt(s, i + 1) /\ s[i + 2] = ">"
EndAt(s, i) ==
    s[i] = "<" /\ i + 3 <= Len(s) /\ s[i + 1] = "/" /\ NameAt(s, i + 2) /\ s[i + 3] = ">"
EnvelopeAt(s, i) ==
    /\ i = 3
    /\ Len(s) >= 17
    /\ SubSeq(s, 3, 6) = <<"<", "soapenv:Envelope", " ", "xmlns:soapenv">>
    /\ SubSeq(s, 11, 12) = <<" ", "xmlns:ns">>
    /\ s[17] = ">"
ReferenceAt(s, i) ==
    s[i] = "&" /\ i + 2 <= Len(s) /\ Entity(s[i + 1]) # "" /\ s[i + 2] = ";"
\* position i lies inside markup that starts before it
Inside(s, i) ==
    \/ i > 3 /\ i <= 17 /\ EnvelopeAt(s, 3)
    \/ \E k \in 1..2 : i - k >= 3 /\ (StartAt(s, i - k) \/ ReferenceAt(s, i - k))
    \/ \E k \in 1..3 : i - k >= 3 /\ EndAt(s, i - k)
\* the event at position i of the bytes s; the newline and the indentation
\* between elements make none
EventAt(s, i) ==
    IF Inside(s, i) \/ s[i] = "\n" THEN Event("none", "")
    ELSE IF EnvelopeAt(s, i) \/ StartAt(s, i) THEN Event("start", s[i + 1])
    ELSE IF EndAt(s, i) THEN Event("end", s[i + 2])
    ELSE IF ReferenceAt(s, i) THEN Event("char", Entity(s[i + 1]))
    ELSE IF s[i] \in {"<", "&"} THEN Event("broken", "")
    ELSE Event("char", s[i])

\* the events of a request: those after the XML declaration and its newline
Events(bytes) ==
    SelectSeq([i \in 1..Len(bytes) |->
                 IF i < 3 THEN Event("none", "") ELSE EventAt(bytes, i)],
              LAMBDA e : e.kind # "none")
\* the element structure: the events without the text
Structure(events) == SelectSeq(events, LAMBDA e : e.kind # "char")

\* a text with every markup character replaced by a plain one
Plain(text) == [i \in 1..Len(text) |-> IF text[i] \in Markup THEN "a" ELSE text[i]]
PlainRecord(r) == [f \in DOMAIN r |-> Plain(r[f])]
PlainItem(it) ==
    [it EXCEPT !.Shipper = PlainRecord(@), !.Receiver = PlainRecord(@),
               !.PieceList = [i \in 1..Len(@) |-> [@[i] EXCEPT !.Type = Plain(@)]],
               !.Payment = PlainRecord(@), !.Service = PlainRecord(@),
               !.ShipmentDate = Plain(@), !.Comment = Plain(@), !.Content = Plain(@)]
\* the payload p with the markup characters taken out of every string field
PlainPayload(p) ==
    CASE p.XMLName = "ns:createShipments" ->
           [p EXCEPT !.authData = PlainRecord(@),
                     !.shipments = [i \in 1..Len(@) |-> PlainItem(@[i])]]
      [] p.XMLName = "ns:getMyShipments" ->
           [p EXCEPT !.authData = PlainRecord(@), !.createdFrom = Plain(@),
                     !.createdTo = Plain(@)]
      [] OTHER -> p

\* the texts of the string fields of the payload p
ItemTexts(it) ==
    { it.Shipper[f] : f \in DOMAIN it.Shipper } \cup { it.Receiver[f] : f \in DOMAIN it.Receiver }
    \cup { it.Comment, it.Content, it.ShipmentDate }
PayloadTexts(p) ==
    CASE p.XMLName = "ns:createShipments" ->
           { p.authData.username, p.authData.password }
           \cup UNION { ItemTexts(p.shipments[i]) : i \in 1..Len(p.shipments) }
      [] p.XMLName = "ns:getMyShipments" ->
           { p.authData.username, p.authData.password, p.createdFrom, p.createdTo }
      [] OTHER -> {}

\* C16: in every request marshalSOAPRequest builds, markup characters in the
\* text of a string field are escaped: the document is well formed and its
\* element structure is that of the same request with the markup characters
\* replaced by plain ones, so no value adds, closes or renames an element.
C16_MarkupIsEscaped ==
    mReq.XMLName # ""
    => LET events == Events(mOut) IN
         /\ \A i \in 1..Len(events) : events[i].kind # "broken"
         /\ Structure(events) =
              Structure(Events(Bytes(marshalSOAPRequest(PlainPayload(mReq)))))

\* reached for C16: a request whose receiver name is "<&" and whose bytes
\* hold the two character references
C16_Witness_MarkupInName ==
    /\ mReq.XMLName = "ns:createShipments"
    /\ Len(mReq.shipments) = 1
    /\ mReq.shipments[1].Receiver.Name = <<"<", "&">>
    /\ \E i \in 1..Len(mOut) :
         /\ i + 9 <= Len(mOut)
         /\ SubSeq(mOut, i, i + 9) =
              <<"<", "name", ">", "&", "lt", ";", "&", "amp", ";", "<">>

\* decimal numerals, written digit by digit
RECURSIVE Numeral(_)
Numeral(n) == IF n < 10 THEN Digit(n) ELSE Numeral(n \div 10) \o Digit(n % 10)
\* a weight given in tenths
Decimal(tenths) ==
    IF tenths % 10 = 0 THEN Numeral(tenths \div 10)
    ELSE Numeral(tenths \div 10) \o "." \o Digit(tenths % 10)

\* the events of the elements the wire format asks for
RECURSIVE Join(_)
Join(seqs) == IF seqs = <<>> THEN <<>> ELSE Head(seqs) \o Join(Tail(seqs))
Within(name, events) == <<Event("start", name)>> \o events \o <<Event("end", name)>>
Holding(name, text) == Within(name, [i \in 1..Len(text) |-> Event("char", text[i])])
Optional(name, text) == IF text = <<>> THEN <<>> ELSE Holding(name, text)
AddressEvents(name, a) ==
    Within(name,
           Optional("country", a.Country) \o Holding("name", a.Name)
           \o Holding("postalCode", a.PostalCode) \o Holding("city", a.City)
           \o Holding("street", a.Street) \o Holding("houseNumber", a.HouseNumber)
           \o Optional("apartmentNumber", a.ApartmentNumber)
           \o Optional("contactPerson", a.ContactPerson)
           \o Holding("contactPhone", a.ContactPhone)
           \o Holding("contactEmail", a.ContactEmail))
PieceEvents(p) ==
    Within("item", Holding("type", p.Type) \o Holding("quantity", <<Numeral(p.Quantity)>>)
                   \o Holding("weight", <<Decimal(p.Weight)>>))
ItemEvents(it) ==
    Within("item",
           AddressEvents("shipper", it.Shipper) \o AddressEvents("receiver", it.Receiver)
           \o Within("pieceList", Join([i \in 1..Len(it.PieceList) |-> PieceEvents(it.PieceList[i])]))
           \o Within("payment",
                     Holding("paymentType", it.Payment.PaymentType)
                     \o Holding("payerType", it.Payment.PayerType)
                     \o Holding("accountNumber", it.Payment.AccountNumber)
                     \o Holding("paymentMethod", it.Payment.PaymentMethod))
           \o Within("service", Holding("product", it.Service.Product))
           \o Holding("shipmentDate", it.ShipmentDate)
           \o Holding("skipRestrictionCheck",
                      <<IF it.SkipRestrictionCheck THEN "true" ELSE "false">>)
           \o Holding("comment", it.Comment) \o Holding("content", it.Content))
CreateShipmentsEvents(p) ==
    Within("soapenv:Envelope",
           Within("soapenv:Header", <<>>)
           \o Within("soapenv:Body",
                     Within("ns:createShipments",
                            Within("authData", Holding("username", p.authData.username)
                                               \o Holding("password", p.authData.password))
                            \o Within("shipments",
                                      Join([i \in 1..Len(p.shipments) |->
                                              ItemEvents(p.shipments[i])])))))

\* C17: the createShipments request holds one item element per ShipmentItem in
\* input order and in each one pieceList item per Piece in input order, every
\* value equal to its source; empty strings without an omit rule are written
\* as empty elements, empty country, apartmentNumber and contactPerson are
\* left out.
C17_CreateShipmentsRequest ==
    mReq.XMLName = "ns:createShipments"
    => Events(mOut) = CreateShipmentsEvents(mReq)

\* reached for C17: two shipments, the first with an empty comment and no
\* pieces, the second with two pieces, the heavier first
C17_Witness_TwoItems ==
    /\ mReq.XMLName = "ns:createShipments"
    /\ Len(mReq.shipments) = 2
    /\ mReq.shipments[1].Comment = <<>>
    /\ mReq.shipments[1].PieceList = <<>>
    /\ Len(mReq.shipments[2].PieceList) = 2
    /\ mReq.shipments[2].PieceList[1].Weight = 120
    /\ mReq.shipments[2].PieceList[2].Weight = 5
    /\ mReq.shipments[2].Receiver.ApartmentNumber = <<>>
    /\ Len(mOut) > 0

\* reached for C17: a shipment whose receiver has no country
C17_Witness_NoCountry ==
    /\ mReq.XMLName = "ns:createShipments"
    /\ Len(mReq.shipments) = 1
    /\ mReq.shipments[1].Receiver.Country = <<>>
    /\ Len(mOut) > 0

\* C21: a method that returns a nil error returns the response httpClient.Do
\* gave it, never nil; the response it returns is nil only when the error
\* arose before a response was there: while the request was being sent.
C21_NilErrorHasResponse ==
    pc = "done"
    => /\ ret.err = NilErr => (ret.resp \in Responses /\ ret.resp = httpResp)
       /\ ret.resp = NoResp =>
            /\ ret.err.msg = "error making request"
            /\ httpResp = NoResp
            /\ respDoc = NoDoc

\* reached for C21: a listing that returns two shipments, no error and the
\* response with its status
C21_Witness_ListingWithResponse ==
    /\ Returned("GetMyShipmentsLastDays")
    /\ ret.err = NilErr
    /\ Len(ret.listed) = 2
    /\ ret.resp = [status |-> 200]

\* reached for C21: a creation whose request could not be sent: an error and
\* no response
C21_Witness_NoResponse ==
    /\ Returned("CreateShipment")
    /\ ret.err = ErrorfW("error making request", "connection refused")
    /\ ret.resp = NoResp

\* what a method returns beside the response itself
Values(r) == <<r.version, r.created, r.single, r.listed, r.err>>

\* C22: the result and the error of every operation are determined by the
\* response body alone: with the body that was read, a response of any other
\* status gives the same values and the same error.
C22_StatusIsNeverConsulted ==
    (pc = "done" /\ ioErr = "" /\ respDoc # NoDoc)
    => /\ httpResp \in Responses
       /\ \A other \in Responses :
            Values(Continue(op, [body |-> respDoc, resp |-> other, err |-> NilErr]))
              = Values(ret)

\* reached for C22: a listing answered with status 500 and a body of two
\* shipments returns them without an error
C22_Witness_ServerErrorStatus ==
    /\ Returned("GetMyShipments")
    /\ httpResp = [status |-> 500]
    /\ ParsesAsEnvelope(respDoc)
    /\ ret.err = NilErr
    /\ Len(ret.listed) = 2
    /\ ret.resp = [status |-> 500]

\* C23: with debugFiles on, every request and every response of every call
\* is kept in a debug file of its own: no two calls, one after the other or
\* side by side, write a file of the same name.
C23_DebugFilesAreNotShared ==
    \A a, b \in written : a.path = b.path => a.call = b.call

\* what the file names do guarantee: files written in different milliseconds,
\* for different operations or for the request and the response of one call
\* have different names
C23_SameNameSameMillisecond ==
    \A a, b \in written :
        a.path = b.path => a.milli = b.milli

=============================================================================
